---- MODULE Spec2Model ----
(***************************************************************************)
(* ObjectConstructor (syft/generic.py): a constructor proxy that is        *)
(* installed over a library constructor.  The state is the attribute       *)
(* namespace of the wrapped libraries, the instance dictionary of every    *)
(* proxy, the static members copied onto every proxy class and the         *)
(* identifier generator.  Every method call is one atomic action: the      *)
(* program is single-threaded and synchronous.                             *)
(***************************************************************************)
EXTENDS Integers, Sequences, FiniteSets, TLC

VARIABLES
    namespace,       \* namespace[loc]: the attributes bound on library module loc
    instance_dict,   \* instance_dict[p]: the instance attributes (__dict__) of proxy p
    static_methods,  \* static_methods[cls]: library classes whose static members were copied onto proxy class cls
    id_counter,      \* number of identifiers generate_random_id has handed out
    rebinds,         \* number of times the host library rebound one of its names
    pre_install,     \* history: pre_install[p] = what constructor_name was bound to right before p's last successful install
    last             \* observation of the last call: its inputs, the steps it ran, what it raised or returned

vars == <<namespace, instance_dict, static_methods, id_counter, rebinds, pre_install, last>>

None == "None"

\* Cap on the identifiers generated in one behaviour.
MaxIds == 1

\* Cap on the rebindings done by the host library in one behaviour.
MaxRebinds == 1

----------------------------------------------------------------------------
(* The wrapped libraries.  A library constructor is either a type          *)
(* (th.Tensor) or a standalone function building objects of a type         *)
(* (th.tensor).                                                            *)

Locations == {"torch", "tensorflow"}

NativeClasses == {"th_Tensor", "th_Parameter", "tf_Tensor"}
NativeFunctions == {"th_tensor"}
Natives == NativeClasses \cup NativeFunctions

\* The constructors each library owns.
LibraryConstructors(loc) ==
    IF loc = "torch" THEN {"th_Tensor", "th_Parameter", "th_tensor"} ELSE {"tf_Tensor"}

\* The method resolution order of a library class: th_Parameter subclasses th_Tensor.
Mro(c) == IF c = "th_Parameter" THEN {"th_Parameter", "th_Tensor"} ELSE {c}

\* The type of the objects a library constructor builds.
Makes(v) == IF v = "th_tensor" THEN "th_Tensor" ELSE v

\* Calling a library constructor: a new object without an id attribute.
native_call(v, args, kwargs) ==
    [type |-> Makes(v), args |-> args, kwargs |-> kwargs, id |-> None]

\* The attributes the libraries define before anything is installed.
LibraryNamespace ==
    [loc \in Locations |->
        IF loc = "torch"
        THEN [n \in {"Tensor", "tensor"} |-> IF n = "Tensor" THEN "th_Tensor" ELSE "th_tensor"]
        ELSE [n \in {"Tensor"} |-> "tf_Tensor"]]

\* Argument lists and keyword maps passed to a constructor.
ArgLists == {<<5>>}
KwargMaps == {[k \in {} |-> 0], [k \in {"dtype"} |-> "int"]}

\* Objects handed to isinstance.
Instances == {native_call(c, <<>>, [k \in {} |-> 0]) : c \in {"th_Tensor", "th_Parameter"}}

----------------------------------------------------------------------------
(* The proxies: instances of subclasses of ObjectConstructor.              *)
(* constructor_name and constructor_location are class attributes.         *)

ProxyClasses == {"TensorConstructor", "FunctionConstructor",
                 "StashConstructor", "TfTensorConstructor"}

Proxies == {"tensor_ctor_1", "tensor_ctor_2", "function_ctor",
            "stash_ctor", "tf_tensor_ctor"}

\* type(self)
TypeOf(self) ==
    CASE self \in {"tensor_ctor_1", "tensor_ctor_2"} -> "TensorConstructor"
      [] self = "function_ctor" -> "FunctionConstructor"
      [] self = "stash_ctor" -> "StashConstructor"
      [] self = "tf_tensor_ctor" -> "TfTensorConstructor"

class_constructor_name(cls) ==
    CASE cls = "TensorConstructor" -> "Tensor"
      [] cls = "FunctionConstructor" -> "tensor"
      [] cls = "StashConstructor" -> "original_Tensor"
      [] cls = "TfTensorConstructor" -> "Tensor"

class_constructor_location(cls) ==
    IF cls = "TfTensorConstructor" THEN "tensorflow" ELSE "torch"

\* self.constructor_name / self.constructor_location: no instance sets them,
\* so the lookup reaches the class attribute.
constructor_name(self) == class_constructor_name(TypeOf(self))
constructor_location(self) == class_constructor_location(TypeOf(self))

\* syft.util.get_original_constructor_name: "original_<name>".
get_original_constructor_name(object_name) == "original_" \o object_name

----------------------------------------------------------------------------
(* Python attribute access on a library module.                            *)

hasattr(ns, loc, name) == name \in DOMAIN ns[loc]
getattr(ns, loc, name) == ns[loc][name]
setattr(ns, loc, name, value) ==
    [ns EXCEPT ![loc] = [n \in DOMAIN @ \cup {name} |-> IF n = name THEN value ELSE @[n]]]

\* isinstance(v, ObjectConstructor)
IsObjectConstructor(v) == v \in Proxies

\* Variant: callable(v) in place of isinstance(v, type).
IsType_callable(v) == v \in Natives

\* isinstance(v, type)
IsType(v) == v \in NativeClasses

----------------------------------------------------------------------------
(* ObjectConstructor methods.  A method result is a record whose field     *)
(* raised is "none" or the error the method raised.                        *)
(*   "DuplicateInstallation"      the AttributeError of install_inside_library *)
(*   "MissingOriginalConstructor" the AttributeError of original_constructor   *)
(*   "AttributeError"             a failed attribute lookup                    *)
(*   "TypeError"                  isinstance against something not a type      *)

\* The original_constructor property.  self.original_constructor_name exists
\* only once store_original_constructor has run on this instance; without it
\* the lookup in the try block fails and so does the message of the handler.
original_constructor(self, ns, dict) ==
    IF "original_constructor_name" \notin DOMAIN dict[self]
    THEN [raised |-> "AttributeError", value |-> None]
    ELSE IF ~hasattr(ns, constructor_location(self), dict[self].original_constructor_name)
    THEN [raised |-> "MissingOriginalConstructor", value |-> None]
    ELSE [raised |-> "none",
          value |-> getattr(ns, constructor_location(self), dict[self].original_constructor_name)]

\* Variant: the copy is made without the hasattr test.
store_original_constructor_overwrite(self, ns, dict) ==
    LET original_constructor_name == get_original_constructor_name(constructor_name(self))
        current == getattr(ns, constructor_location(self), constructor_name(self))
    IN  [dict |-> [dict EXCEPT ![self] =
                     [a \in DOMAIN @ \cup {"original_constructor_name"} |->
                        IF a = "original_constructor_name" THEN original_constructor_name ELSE @[a]]],
         ns |-> setattr(ns, constructor_location(self), original_constructor_name, current)]

\* store_original_constructor: remembers the derived name on the instance and
\* copies the current constructor there unless something is already there.
store_original_constructor(self, ns, dict) ==
    LET original_constructor_name == get_original_constructor_name(constructor_name(self))
        current == getattr(ns, constructor_location(self), constructor_name(self))
    IN  [dict |-> [dict EXCEPT ![self] =
                     [a \in DOMAIN @ \cup {"original_constructor_name"} |->
                        IF a = "original_constructor_name" THEN original_constructor_name ELSE @[a]]],
         ns |-> IF ~hasattr(ns, constructor_location(self), original_constructor_name)
                THEN setattr(ns, constructor_location(self), original_constructor_name, current)
                ELSE ns]

\* syft.util.copy_static_methods(from_class, to_class)
copy_static_methods(statics, from_class, to_class) ==
    [statics EXCEPT ![to_class] = @ \cup {from_class}]

\* Variant: only this very instance counts as already installed.
already_installed_same_instance(self, ns) ==
    getattr(ns, constructor_location(self), constructor_name(self)) = self

\* Variant: type(current) is ObjectConstructor, which no subclass instance satisfies.
already_installed_exact_type(self, ns) ==
    getattr(ns, constructor_location(self), constructor_name(self)) \in {}

\* The test of install_inside_library: a custom constructor already sits at
\* constructor_location.constructor_name.
already_installed(self, ns) ==
    IsObjectConstructor(getattr(ns, constructor_location(self), constructor_name(self)))

\* install_inside_library: the state it leaves and what it raised.
install_inside_library(self, ns, dict, statics) ==
    IF ~hasattr(ns, constructor_location(self), constructor_name(self))
    THEN [raised |-> "AttributeError", ns |-> ns, dict |-> dict, statics |-> statics,
          copied |-> None]
    ELSE IF ~already_installed(self, ns)
    THEN LET stored == store_original_constructor(self, ns, dict)
             ns2 == setattr(stored.ns, constructor_location(self), constructor_name(self), self)
             original == original_constructor(self, ns2, stored.dict)
             copy == original.raised = "none" /\ IsType(original.value)
         IN  [raised |-> original.raised, ns |-> ns2, dict |-> stored.dict,
              statics |-> IF copy
                          THEN copy_static_methods(statics, original.value, TypeOf(self))
                          ELSE statics,
              copied |-> IF copy THEN original.value ELSE None]
    ELSE [raised |-> "DuplicateInstallation", ns |-> ns, dict |-> dict, statics |-> statics,
          copied |-> None]

\* pre_init: the default returns its arguments.
pre_init(self, args, kwargs) == <<args, kwargs>>

\* assign_id: the identifier is generated first, then the assignment target
\* self.obj.id is resolved; self.obj is an attribute of the constructor.
assign_id(self, obj, dict) ==
    IF "obj" \in DOMAIN dict[self]
    THEN [raised |-> "none", obj |-> obj, ids |-> 1]
    ELSE [raised |-> "AttributeError", obj |-> None, ids |-> 1]

\* post_init(self, obj, *args, **kwargs)
post_init(self, obj, args, kwargs, dict) == assign_id(self, obj, dict)

RECURSIVE call(_, _, _, _, _)

\* init: calls the original constructor, which is a library constructor or,
\* when a constructor sits under the derived name, that constructor.
init(self, args, kwargs, ns, dict) ==
    LET original == original_constructor(self, ns, dict)
    IN  IF original.raised # "none"
        THEN [raised |-> original.raised, obj |-> None, ids |-> 0, steps |-> <<>>,
              delegate |-> None]
        ELSE IF IsObjectConstructor(original.value)
        THEN LET inner == call(original.value, args, kwargs, ns, dict)
             IN  [raised |-> inner.raised, obj |-> inner.result, ids |-> inner.ids,
                  steps |-> inner.steps, delegate |-> original.value]
        ELSE [raised |-> "none", obj |-> native_call(original.value, args, kwargs),
              ids |-> 0, steps |-> <<>>, delegate |-> original.value]

\* __call__: pre_init, init, post_init(obj=obj, args=new_args, kwargs=new_kwargs).
call(self, args, kwargs, ns, dict) ==
    LET pre == pre_init(self, args, kwargs)
        new_args == pre[1]
        new_kwargs == pre[2]
        made == init(self, new_args, new_kwargs, ns, dict)
        post_args == <<>>
        post_kwargs == [args |-> new_args, kwargs |-> new_kwargs]
        post == post_init(self, made.obj, post_args, post_kwargs, dict)
        head == [self |-> self, args |-> args, kwargs |-> kwargs,
                 new_args |-> new_args, new_kwargs |-> new_kwargs,
                 init_args |-> new_args, init_kwargs |-> new_kwargs,
                 delegate |-> made.delegate, init_obj |-> made.obj]
    IN  IF made.raised # "none"
        THEN head @@ [raised |-> made.raised, result |-> None, ids |-> made.ids,
                      steps |-> <<<<self, "pre_init">>, <<self, "init">>>> \o made.steps,
                      post_obj |-> None, post_args |-> None, post_kwargs |-> None,
                      post_result |-> None]
        ELSE head @@ [raised |-> post.raised, result |-> post.obj, ids |-> made.ids + post.ids,
                      steps |-> <<<<self, "pre_init">>, <<self, "init">>>> \o made.steps
                                    \o <<<<self, "post_init">>>>,
                      post_obj |-> made.obj, post_args |-> post_args,
                      post_kwargs |-> post_kwargs, post_result |-> post.obj]

RECURSIVE instancecheck(_, _, _)

\* Variant: type(instance) is target, which the instances of a subclass fail.
isinstance_exact(instance, target, ns) ==
    IF target \in NativeClasses
    THEN [raised |-> "none", value |-> target = instance.type]
    ELSE IF IsObjectConstructor(target)
    THEN instancecheck(TypeOf(target), instance, ns)
    ELSE [raised |-> "TypeError", value |-> None]

\* isinstance(instance, target)
isinstance(instance, target, ns) ==
    IF target \in NativeClasses
    THEN [raised |-> "none", value |-> target \in Mro(instance.type)]
    ELSE IF IsObjectConstructor(target)
    THEN instancecheck(TypeOf(target), instance, ns)
    ELSE [raised |-> "TypeError", value |-> None]

\* __instancecheck__, a classmethod: it reads the attributes of the class.
instancecheck(cls, instance, ns) ==
    LET original_constructor_name == get_original_constructor_name(class_constructor_name(cls))
    IN  IF ~hasattr(ns, class_constructor_location(cls), original_constructor_name)
        THEN [raised |-> "AttributeError", value |-> None]
        ELSE isinstance(instance,
                        getattr(ns, class_constructor_location(cls), original_constructor_name), ns)

----------------------------------------------------------------------------
(* The state machine.                                                      *)

Init ==
    /\ namespace = LibraryNamespace
    /\ instance_dict = [p \in Proxies |-> [a \in {} |-> None]]
    /\ static_methods = [cls \in ProxyClasses |-> {}]
    /\ id_counter = 0
    /\ rebinds = 0
    /\ pre_install = [p \in Proxies |-> None]
    /\ last = [op |-> "none"]

\* self.install_inside_library()
Install(self) ==
    LET r == install_inside_library(self, namespace, instance_dict, static_methods)
        loc == constructor_location(self)
        name == constructor_name(self)
        stash == get_original_constructor_name(name)
    IN  /\ namespace' = r.ns
        /\ instance_dict' = r.dict
        /\ static_methods' = r.statics
        /\ pre_install' = IF r.raised = "none"
                          THEN [pre_install EXCEPT ![self] = getattr(namespace, loc, name)]
                          ELSE pre_install
        /\ last' = [op |-> "install", self |-> self, raised |-> r.raised,
                    before |-> IF hasattr(namespace, loc, name)
                               THEN getattr(namespace, loc, name) ELSE None,
                    stash_before |-> IF hasattr(namespace, loc, stash)
                                     THEN getattr(namespace, loc, stash) ELSE None,
                    statics_before |-> static_methods[TypeOf(self)],
                    copied |-> r.copied]
        /\ UNCHANGED <<id_counter, rebinds>>

\* self(*args, **kwargs)
Invoke(self, args, kwargs) ==
    LET r == call(self, args, kwargs, namespace, instance_dict)
    IN  /\ id_counter + r.ids <= MaxIds
        /\ id_counter' = id_counter + r.ids
        /\ last' = [op |-> "invoke", id_before |-> id_counter] @@ r
        /\ UNCHANGED <<namespace, instance_dict, static_methods, rebinds, pre_install>>

\* isinstance(instance, self)
TypeCheck(self, instance) ==
    LET r == instancecheck(TypeOf(self), instance, namespace)
    IN  /\ last' = [op |-> "typecheck", self |-> self, instance |-> instance,
                    raised |-> r.raised, value |-> r.value]
        /\ UNCHANGED <<namespace, instance_dict, static_methods, id_counter, rebinds, pre_install>>

\* The host library (or its user) rebinds one of its own constructor names to
\* a library constructor: the binding install_inside_library reads is external.
Rebind(loc, name, value) ==
    /\ rebinds < MaxRebinds
    /\ name \in DOMAIN LibraryNamespace[loc]
    /\ value \in LibraryConstructors(loc)
    /\ getattr(namespace, loc, name) # value
    /\ rebinds' = rebinds + 1
    /\ namespace' = setattr(namespace, loc, name, value)
    /\ last' = [op |-> "rebind", loc |-> loc, name |-> name, value |-> value]
    /\ UNCHANGED <<instance_dict, static_methods, id_counter, pre_install>>

DoInstall == \E self \in Proxies : Install(self)
DoInvoke == \E self \in Proxies, args \in ArgLists, kwargs \in KwargMaps : Invoke(self, args, kwargs)
DoTypeCheck == \E self \in Proxies, instance \in Instances : TypeCheck(self, instance)
DoRebind == \E loc \in Locations, value \in Natives :
                \E name \in DOMAIN LibraryNamespace[loc] : Rebind(loc, name, value)

Next == DoInstall \/ DoInvoke \/ DoTypeCheck \/ DoRebind

Spec == Init /\ [][Next]_vars

\* The calls of the proxies alone, in a namespace nobody else rebinds.
NextCalls == DoInstall \/ DoInvoke \/ DoTypeCheck

SpecCalls == Init /\ [][NextCalls]_vars

----------------------------------------------------------------------------
(* Properties.                                                             *)

\* The derived original name of self's (location, name) pair.
StashName(self) == get_original_constructor_name(constructor_name(self))

\* constructor_name on constructor_location is bound to self.
Installed(self) ==
    /\ constructor_name(self) \in DOMAIN namespace[constructor_location(self)]
    /\ namespace[constructor_location(self)][constructor_name(self)] = self

\* Something is bound under the derived original name of self's pair.
Stashed(self) == StashName(self) \in DOMAIN namespace[constructor_location(self)]

Stash(self) == namespace[constructor_location(self)][StashName(self)]

\* C1: an install at a name that is already bound to a constructor proxy (this
\* instance or another one) raises DuplicateInstallation and changes neither
\* the namespace (the binding, the stash) nor any other state.
C1_DuplicateInstallMutatesNothing ==
    [][\A self \in Proxies :
          ( /\ last'.op = "install"
            /\ last'.self = self
            /\ constructor_name(self) \in DOMAIN namespace[constructor_location(self)]
            /\ namespace[constructor_location(self)][constructor_name(self)] \in Proxies )
          => ( /\ last'.raised = "DuplicateInstallation"
               /\ namespace' = namespace
               /\ instance_dict' = instance_dict
               /\ static_methods' = static_methods )]_vars

\* C1 witness: an install by another instance than the installed one was refused.
C1_Witness ==
    /\ last.op = "install"
    /\ last.raised = "DuplicateInstallation"
    /\ last.self # namespace[constructor_location(last.self)][constructor_name(last.self)]
    /\ Stashed(last.self)

\* C2: under install, invoke and typeCheck calls a name bound to a proxy stays
\* bound to that same proxy, so a pair is installed at most once.
C2_InstalledStaysInstalled ==
    [][last'.op \in {"install", "invoke", "typecheck"}
          => \A loc \in Locations : \A n \in DOMAIN namespace[loc] :
                namespace[loc][n] \in Proxies
                => (n \in DOMAIN namespace'[loc] /\ namespace'[loc][n] = namespace[loc][n])]_vars

\* C2 witness: the installed proxy was asked to install again and is still bound.
C2_Witness ==
    /\ last.op = "install"
    /\ last.raised = "DuplicateInstallation"
    /\ Installed(last.self)

C4_InvokeReturnsObjectWithFreshId ==
    (last.op = "invoke" /\ Installed(last.self))
    => ( /\ last.raised = "none"
         /\ last.result.type = last.init_obj.type
         /\ last.result.id # None
         /\ last.result.id > last.id_before )

\* C5: an invoke runs pre_init, init, post_init once each in this order; init
\* gets what pre_init returned, post_init gets the object of init with the same
\* argument list and keyword map, and invoke returns what post_init returned.
C5_PipelinePassesValuesVerbatim ==
    (last.op = "invoke" /\ Installed(last.self) /\ last.delegate \in Natives)
    => ( /\ SelectSeq(last.steps, LAMBDA s : s[1] = last.self)
              = << <<last.self, "pre_init">>, <<last.self, "init">>, <<last.self, "post_init">> >>
         /\ last.new_args = last.args
         /\ last.new_kwargs = last.kwargs
         /\ last.init_args = last.new_args
         /\ last.init_kwargs = last.new_kwargs
         /\ last.post_obj = last.init_obj
         /\ last.post_args = last.new_args
         /\ last.post_kwargs = last.new_kwargs
         /\ last.raised = "none"
         /\ last.result = last.post_result )

C7_AccessorFindsStash ==
    /\ \A self \in Proxies :
          LET r == original_constructor(self, namespace, instance_dict)
          IN  IF Stashed(self)
              THEN r.raised = "none" /\ r.value = Stash(self)
              ELSE r.raised # "none"
    /\ (last.op = "invoke" /\ last.delegate = None)
          => ( /\ ~Stashed(last.self)
               /\ last.raised # "none"
               /\ \A i \in 1..Len(last.steps) : last.steps[i][2] # "post_init" )

\* C8: an install copies the static members of the original onto the type of
\* the proxy exactly when it succeeds and the stashed original is a type; a
\* function original and a refused install copy nothing.
C8_StaticsCopiedIffType ==
    last.op = "install"
    => ( /\ (last.copied # None)
              <=> (last.raised = "none" /\ Stash(last.self) \in NativeClasses)
         /\ last.copied # None
              => ( /\ last.copied = Stash(last.self)
                   /\ static_methods[TypeOf(last.self)] = last.statics_before \cup {last.copied} )
         /\ last.copied = None
              => static_methods[TypeOf(last.self)] = last.statics_before )

\* C8 witness: a successful install over a function, nothing copied.
C8_Witness ==
    /\ last.op = "install"
    /\ last.raised = "none"
    /\ Stash(last.self) \in NativeFunctions
    /\ last.copied = None
    /\ static_methods[TypeOf(last.self)] = {}

\* C9: from a namespace without derived names, after install and invoke calls
\* nothing stashed under a derived original name is a proxy, and init of an
\* installed proxy delegates to a library constructor.
C9_StashNeverProxy ==
    /\ \A self \in Proxies : Stashed(self) => Stash(self) \notin Proxies
    /\ (last.op = "invoke" /\ last.delegate # None) => last.delegate \notin Proxies

\* C10: once something is bound under a derived original name, no install,
\* invoke or typeCheck call changes that binding.
C10_StashWriteOnce ==
    [][last'.op \in {"install", "invoke", "typecheck"}
          => \A self \in Proxies :
                Stashed(self)
                => ( /\ StashName(self) \in DOMAIN namespace'[constructor_location(self)]
                     /\ namespace'[constructor_location(self)][StashName(self)] = Stash(self) )]_vars

====
